---- MODULE Spec2Model ----
(***************************************************************************)
(* IPO all-time-high scanner (src/ipo_scanner.py).                         *)
(*                                                                         *)
(* One run is one invocation of main(): parse_args, then scan_ipos, whose  *)
(* steps are get_recent_ipos, batch_fetch_histories and one pass of the    *)
(* evaluation loop per identifier, with send_telegram_message called from  *)
(* the loop.  The market-data provider and the symbol table are the        *)
(* environment.                                                            *)
(*                                                                         *)
(* Prices are positive integers, or NaN where the provider has no value    *)
(* for a row.  A fractional threshold t is held in basis points            *)
(* (t * 10000), a distance in percent is held in hundredths of a percent   *)
(* (the two decimals round() keeps), and the float comparisons of the      *)
(* source are decided in exact arithmetic; a comparison with NaN is false. *)
(***************************************************************************)
EXTENDS Integers, Sequences, FiniteSets

VARIABLES
    market,       \* provider data: ticker -> what yf.download holds for it
    pc,           \* position of the run: idle, scan, fetch, loop, done
    threshold,    \* args.threshold, in basis points
    dry_run,      \* args.dry_run
    env,          \* which of BOT_TOKEN, CHAT_ID are set in the environment
    symbols,      \* list returned by get_recent_ipos
    histories,    \* dict of batch_fetch_histories: symbol -> frame or None
    i,            \* number of histories.items() already processed
    alerts,       \* list of (symbol, distance) built by scan_ipos
    dispatched,   \* send_telegram_message calls of this run, with outcome
    raised,       \* exception that left scan_ipos in this run, or "none"
    outcome,      \* how main ended: running, completed, caught, crashed
    runs,         \* number of runs started
    requests      \* log of the history requests issued to the provider, all runs

vars == <<market, pc, threshold, dry_run, env, symbols, histories, i, alerts,
          dispatched, raised, outcome, runs, requests>>

(***************************************************************************)
(* Bounds of the model                                                     *)
(***************************************************************************)
\* longest history enumerated exhaustively
MaxBars == 4
\* prices of the exhaustive histories are 1..MaxPrice
MaxPrice == 3
\* number of scheduled runs
MaxRuns == 2

Prices == 1..MaxPrice
\* threshold values: 0.04 and 0.5
Thresholds == {400, 5000}
\* identifiers of the symbol table, in table order
CsvOrder == <<"A", "B">>

(***************************************************************************)
(* Program constants                                                       *)
(***************************************************************************)
\* "at least 3 candles since ATH"
MinCandlesSinceAth == 3

(***************************************************************************)
(* Frames                                                                  *)
(***************************************************************************)
\* a DataFrame: its columns and its rows (bars), each bar with its timestamp
Frame(cols, bars) == [kind |-> "frame", cols |-> cols, bars |-> bars]
\* Python's None for a history
NoneHist == [kind |-> "none", cols |-> {}, bars |-> <<>>]
\* provider outcomes that are not a frame
Absent == [kind |-> "absent", cols |-> {}, bars |-> <<>>]
Broken == [kind |-> "raises", cols |-> {}, bars |-> <<>>]

OHLC == {"Open", "High", "Low", "Close", "Volume"}

\* the float NaN of a row the provider has no value for
NaN == 0 - 1

\* bars with timestamps 1..Len(highs); only the last close is free
BarsOf(highs, lastClose) ==
    [k \in 1..Len(highs) |->
        [ts |-> k, High |-> highs[k],
         Close |-> IF k = Len(highs) THEN lastClose ELSE highs[k]]]

\* bars on the union index of a multi-ticker download: lead rows before the
\* first bar and trail rows after the last one hold NaN
Padded(lead, bars, trail) ==
    [k \in 1..(lead + Len(bars) + trail) |->
        IF k > lead /\ k <= lead + Len(bars)
        THEN [ts |-> k, High |-> bars[k - lead].High, Close |-> bars[k - lead].Close]
        ELSE [ts |-> k, High |-> NaN, Close |-> NaN]]

\* the same rows delivered newest first
Reversed(bars) == [k \in 1..Len(bars) |-> bars[Len(bars) + 1 - k]]


(***************************************************************************)
(* batch_fetch_histories                                                   *)
(***************************************************************************)
RECURSIVE InsertByTs(_, _)
\* bar b placed into the ascending sequence s, after the bars not later than it
InsertByTs(b, s) ==
    IF s = <<>> THEN <<b>>
    ELSE IF b.ts < Head(s).ts THEN <<b>> \o s
    ELSE <<Head(s)>> \o InsertByTs(b, Tail(s))

RECURSIVE SortIndex(_)
\* frame.sort_index(): the rows in ascending timestamp order
SortIndex(bars) ==
    IF bars = <<>> THEN <<>>
    ELSE InsertByTs(bars[Len(bars)], SortIndex(SubSeq(bars, 1, Len(bars) - 1)))

\* frame.empty: no rows or no columns
IsEmpty(f) == f.bars = <<>> \/ f.cols = {}

\* a bug: a frame without its "Close" column is kept as a history
MutStoredHistoryKeepsNoClose(raw) ==
    IF raw.kind # "frame" THEN NoneHist
    ELSE IF IsEmpty(raw) \/ "High" \notin raw.cols THEN NoneHist
    ELSE Frame(raw.cols, SortIndex(raw.bars))

\* results[sym] for one symbol: the body of the loop over symbols.  extract_frame
\* gives None for a ticker the download does not hold, an exception while
\* extracting is caught and stored as None, and so is an unusable frame.
StoredHistory(raw) ==
    IF raw.kind = "raises" THEN NoneHist
    ELSE IF raw.kind = "absent" THEN NoneHist
    ELSE IF IsEmpty(raw) \/ "High" \notin raw.cols \/ "Close" \notin raw.cols
         THEN NoneHist
    ELSE Frame(raw.cols, SortIndex(raw.bars))

\* a bug: one try around the whole loop, so one failure drops every history
MutBatchResultsOneTry(syms, raw) ==
    IF \E k \in 1..Len(syms) : raw[syms[k]].kind = "raises"
    THEN [s \in {syms[k] : k \in 1..Len(syms)} |-> NoneHist]
    ELSE [s \in {syms[k] : k \in 1..Len(syms)} |-> StoredHistory(raw[s])]

\* the dict batch_fetch_histories returns; its items are in the order of syms
BatchResults(syms, raw) ==
    [s \in {syms[k] : k \in 1..Len(syms)} |-> StoredHistory(raw[s])]

(***************************************************************************)
(* compute_ath_from_hist                                                   *)
(***************************************************************************)
\* hist["High"].max(): NaN is skipped, and is the result when nothing is left
HighMax(bars) ==
    LET vals == {bars[k].High : k \in 1..Len(bars)} \ {NaN}
    IN  IF vals = {} THEN NaN
        ELSE CHOOSE m \in vals : \A v \in vals : v <= m

\* a bug: the label of the last row holding the maximum
MutIdxMaxLast(bars) ==
    LET m == HighMax(bars)
        k == CHOOSE j \in 1..Len(bars) :
                /\ bars[j].High = m
                /\ \A l \in (j + 1)..Len(bars) : bars[l].High # m
    IN  bars[k].ts

\* hist["High"].idxmax(): the label of the first row holding the maximum
IdxMax(bars) ==
    LET m == HighMax(bars)
        k == CHOOSE j \in 1..Len(bars) :
                /\ bars[j].High = m
                /\ \A l \in 1..(j - 1) : bars[l].High # m
    IN  bars[k].ts

\* hist.index.get_loc(label): 0-based position of the row with that label
GetLoc(bars, label) ==
    (CHOOSE k \in 1..Len(bars) : bars[k].ts = label) - 1

NoAth == [ok |-> FALSE, ath |-> 0, ath_index |-> 0,
          candles_since_ath |-> 0, total_candles |-> 0]

\* ATHInfo, or None (ok = FALSE).  With no High value at all idxmax or
\* get_loc raises inside the try, and None is returned.
compute_ath_from_hist(hist) ==
    IF hist.kind = "none" \/ IsEmpty(hist) THEN NoAth
    ELSE IF "High" \notin hist.cols THEN NoAth
    ELSE IF HighMax(hist.bars) = NaN THEN NoAth
    ELSE LET ath     == HighMax(hist.bars)
             ath_idx == IdxMax(hist.bars)
             total   == Len(hist.bars)
             ath_pos == GetLoc(hist.bars, ath_idx)
         IN  [ok |-> TRUE, ath |-> ath, ath_index |-> ath_idx,
              candles_since_ath |-> total - ath_pos - 1,
              total_candles |-> total]

(***************************************************************************)
(* send_telegram_message                                                   *)
(***************************************************************************)
\* a bug: a delivery failure is not caught and leaves the function
MutSendRaisesOnFailure(environ, netOk) ==
    IF "BOT_TOKEN" \notin environ \/ "CHAT_ID" \notin environ
    THEN [result |-> "no_credentials", posted |-> FALSE, ret |-> FALSE, raises |-> FALSE]
    ELSE IF netOk
    THEN [result |-> "sent", posted |-> TRUE, ret |-> TRUE, raises |-> FALSE]
    ELSE [result |-> "failed", posted |-> TRUE, ret |-> FALSE, raises |-> TRUE]

\* a bug: only BOT_TOKEN is looked at
MutSendChecksTokenOnly(environ, netOk) ==
    IF "BOT_TOKEN" \notin environ
    THEN [result |-> "no_credentials", posted |-> FALSE, ret |-> FALSE, raises |-> FALSE]
    ELSE IF netOk
    THEN [result |-> "sent", posted |-> TRUE, ret |-> TRUE, raises |-> FALSE]
    ELSE [result |-> "failed", posted |-> TRUE, ret |-> FALSE, raises |-> FALSE]

\* what one call does: whether SESSION.post was issued, the value returned, and
\* whether an exception leaves the function (requests.RequestException is caught)
send_telegram_message(environ, netOk) ==
    IF "BOT_TOKEN" \notin environ \/ "CHAT_ID" \notin environ
    THEN [result |-> "no_credentials", posted |-> FALSE, ret |-> FALSE, raises |-> FALSE]
    ELSE IF netOk
    THEN [result |-> "sent", posted |-> TRUE, ret |-> TRUE, raises |-> FALSE]
    ELSE [result |-> "failed", posted |-> TRUE, ret |-> FALSE, raises |-> FALSE]

(***************************************************************************)
(* scan_ipos: the tests of the loop body                                   *)
(***************************************************************************)
\* float(hist["Close"].iloc[-1])
LastClose(hist) == hist.bars[Len(hist.bars)].Close

\* a bug: two candles are enough
MutTooRecentTwo(info) == info.candles_since_ath < MinCandlesSinceAth - 1

\* ath_info.candles_since_ath < 3
TooRecent(info) == info.candles_since_ath < MinCandlesSinceAth

\* a bug: a price above the ATH is not skipped
MutAboveAthNever(ath, current) == FALSE

\* distance_pct < 0, where distance_pct = ((ath - current) / ath) * 100.0, ath > 0
AboveAth(ath, current) == current # NaN /\ (ath - current) * 100 < 0

\* a bug: strictly above the bound
MutWithinThresholdStrict(ath, current, thr) ==
    current # NaN /\ current * 10000 > ath * (10000 - thr)

\* current >= ath * (1.0 - threshold), threshold in basis points
WithinThreshold(ath, current, thr) ==
    current # NaN /\ current * 10000 >= ath * (10000 - thr)

\* round(num / den) to the nearest integer, ties to the even one, num >= 0
RoundHalfEven(num, den) ==
    LET q == num \div den
        r == num % den
    IN  IF 2 * r < den THEN q
        ELSE IF 2 * r > den THEN q + 1
        ELSE IF q % 2 = 0 THEN q ELSE q + 1

\* a bug: the distance is cut, not rounded
MutRoundedDistanceTruncates(ath, current) ==
    ((ath - current) * 10000) \div ath

\* round(distance_pct, 2), in hundredths of a percent
RoundedDistance(ath, current) ==
    RoundHalfEven((ath - current) * 10000, ath)

\* the message handed to the dispatcher
Message(sym, hist, ath, current) ==
    [symbol |-> sym, listing_date |-> hist.bars[1].ts, ath |-> ath,
     cmp |-> current, distance |-> RoundedDistance(ath, current)]

\* a bug: main has no try around the scan
MutMainNoTry(exc) == "crashed"

\* main: an exception of the scan is caught and logged
MainOutcome(exc) == "caught"

(***************************************************************************)
(* The environment: what the provider holds for a ticker                   *)
(***************************************************************************)
\* every history of 1..MaxBars bars over Prices, oldest bar first
ExhaustiveBars ==
    UNION {{BarsOf(h, c) : h \in [1..n -> Prices], c \in Prices} : n \in 1..MaxBars}

\* 50 bars, every high 100 except 150 at 0-based position p, last close 148
ScenarioBars(p) ==
    [k \in 1..50 |->
        [ts |-> k, High |-> IF k = p + 1 THEN 150 ELSE 100,
         Close |-> IF k = 50 THEN 148 ELSE 100]]

\* c/32 of the ATH below it: 1/32 is 3.125 percent and 3/32 is 9.375 percent,
\* the rounding ties that go down and up
TieBars(c) == BarsOf(<<32, 32 - c, 32 - c, 32 - c>>, 32 - c)

\* what a download can hold that is not a usable history
Unusable ==
    {Absent, Broken, Frame(OHLC, <<>>),
     Frame(OHLC \ {"High"}, BarsOf(<<2, 1, 1, 1>>, 2)),
     Frame(OHLC \ {"Close"}, BarsOf(<<2, 1, 1, 1>>, 2))}

\* frames with NaN rows: no value at all, a later listing, a last row missing
WithNaN ==
    {Frame(OHLC, Padded(4, <<>>, 0)),
     Frame(OHLC, Padded(2, BarsOf(<<2, 1, 1, 1>>, 2), 0)),
     Frame(OHLC, Padded(0, BarsOf(<<2, 1, 1, 2>>, 2), 1))}

\* the outcomes of a one-identifier market
EvalOutcomes ==
    Unusable \cup WithNaN
    \cup {Frame(OHLC, b) : b \in ExhaustiveBars}
    \cup {Frame(OHLC, ScenarioBars(40)), Frame(OHLC, ScenarioBars(48)),
          Frame(OHLC, TieBars(1)), Frame(OHLC, TieBars(3))}

\* the outcomes of a two-identifier market: one history of each verdict
SampleHighs == {<<2, 1, 1, 1>>, <<1, 1, 1, 2>>, <<2, 1, 1, 2, 1>>, <<1, 1, 1, 1>>}
SampleOutcomes ==
    Unusable \cup WithNaN
    \cup {Frame(OHLC, BarsOf(h, c)) : h \in SampleHighs, c \in {1, 2}}
    \cup {Frame(OHLC, Reversed(BarsOf(<<3, 1, 1, 1, 1>>, 2)))}

(***************************************************************************)
(* Initial states                                                          *)
(***************************************************************************)
InitRun(listed, outcomes) ==
    /\ market \in [listed -> outcomes]
    /\ pc = "idle"
    /\ threshold = 0
    /\ dry_run = FALSE
    /\ env = {}
    /\ symbols = <<>>
    /\ histories = <<>>
    /\ i = 0
    /\ alerts = <<>>
    /\ dispatched = <<>>
    /\ raised = "none"
    /\ outcome = "idle"
    /\ runs = 0
    /\ requests = <<>>

\* two listed identifiers
Init == InitRun({"A", "B"}, SampleOutcomes)

\* one listed identifier, every small history
InitEval == InitRun({"A"}, EvalOutcomes)

(***************************************************************************)
(* main and scan_ipos                                                      *)
(***************************************************************************)
Listed == DOMAIN market

\* the environments the process is started in
Environs == {{}, {"BOT_TOKEN"}, {"BOT_TOKEN", "CHAT_ID"}}

\* main: parse_args, then scan_ipos is entered
Main ==
    /\ pc = "idle"
    /\ runs < MaxRuns
    /\ \E t \in Thresholds, d \in BOOLEAN, e \in Environs :
          /\ threshold' = t
          /\ dry_run' = d
          /\ env' = e
    /\ pc' = "scan"
    /\ outcome' = "running"
    /\ runs' = runs + 1
    /\ UNCHANGED <<market, symbols, histories, i, alerts, dispatched, raised, requests>>

\* the symbols get_recent_ipos returns for the rows the listing-date filter keeps
RecentSymbols(keep) == SelectSeq(CsvOrder, LAMBDA s : s \in keep)

\* get_recent_ipos returns a non-empty list
GetRecentIpos ==
    /\ pc = "scan"
    /\ \E keep \in SUBSET Listed :
          /\ keep # {}
          /\ symbols' = RecentSymbols(keep)
    /\ pc' = "fetch"
    /\ UNCHANGED <<market, threshold, dry_run, env, histories, i, alerts,
                   dispatched, raised, outcome, runs, requests>>

\* get_recent_ipos returns no symbol: scan_ipos returns []
NoRecentIpos ==
    /\ pc = "scan"
    /\ symbols' = RecentSymbols({})
    /\ pc' = "done"
    /\ outcome' = "completed"
    /\ UNCHANGED <<market, threshold, dry_run, env, histories, i, alerts,
                   dispatched, raised, runs, requests>>

\* the Symbol Source fails: raise_for_status, or the table lacks a column
SymbolSourceFails ==
    /\ pc = "scan"
    /\ \E cause \in {"http_error", "missing_columns"} : raised' = cause
    /\ pc' = "done"
    /\ outcome' = MainOutcome(raised')
    /\ UNCHANGED <<market, threshold, dry_run, env, symbols, histories, i, alerts,
                   dispatched, runs, requests>>

\* a bug: the most recent session is requested
MutDownloadPeriodRecent == "1d"

\* yf.download(tickers=..., period="max", ...)
DownloadPeriod == "max"

\* what the call asks the provider: for every ticker the period; `got` tells
\* whether a history with an ATH came back for it
Requested(syms, got) ==
    [k \in 1..Len(syms) |->
        [run |-> runs, symbol |-> syms[k], period |-> DownloadPeriod,
         obtained |-> compute_ath_from_hist(got[syms[k]]).ok]]

\* batch_fetch_histories: one download for all symbols, then one entry per symbol
BatchFetch ==
    /\ pc = "fetch"
    /\ histories' = BatchResults(symbols, market)
    /\ requests' = requests \o Requested(symbols, histories')
    /\ i' = 0
    /\ pc' = "loop"
    /\ UNCHANGED <<market, threshold, dry_run, env, symbols, alerts, dispatched,
                   raised, outcome, runs>>

\* yf.download itself raises: nothing catches it below main
DownloadFails ==
    /\ pc = "fetch"
    /\ requests' = requests \o Requested(symbols, [s \in Listed |-> NoneHist])
    /\ raised' = "download"
    /\ pc' = "done"
    /\ outcome' = MainOutcome(raised')
    /\ UNCHANGED <<market, threshold, dry_run, env, symbols, histories, i, alerts,
                   dispatched, runs>>

\* the item of histories.items() the loop is at
StepSym == symbols[i + 1]
StepHist == histories[StepSym]
StepAth == compute_ath_from_hist(StepHist)
InLoop == pc = "loop" /\ i < Len(symbols)

NextItem ==
    /\ i' = i + 1
    /\ UNCHANGED <<market, pc, threshold, dry_run, env, symbols, histories, alerts,
                   dispatched, raised, outcome, runs, requests>>

\* hist is None, or compute_ath_from_hist gives None: continue
SkipNoData ==
    /\ InLoop
    /\ (StepHist.kind = "none" \/ ~StepAth.ok)
    /\ NextItem

\* the ATH is too recent: continue
SkipTooRecent ==
    /\ InLoop
    /\ StepHist.kind # "none" /\ StepAth.ok
    /\ TooRecent(StepAth)
    /\ NextItem

\* the last close is above the ATH: continue
SkipAboveAth ==
    /\ InLoop
    /\ StepHist.kind # "none" /\ StepAth.ok
    /\ ~TooRecent(StepAth)
    /\ AboveAth(StepAth.ath, LastClose(StepHist))
    /\ NextItem

\* the last close is further below the ATH than the threshold: no alert
NotNear ==
    /\ InLoop
    /\ StepHist.kind # "none" /\ StepAth.ok
    /\ ~TooRecent(StepAth)
    /\ ~AboveAth(StepAth.ath, LastClose(StepHist))
    /\ ~WithinThreshold(StepAth.ath, LastClose(StepHist), threshold)
    /\ NextItem

Qualifies ==
    /\ InLoop
    /\ StepHist.kind # "none" /\ StepAth.ok
    /\ ~TooRecent(StepAth)
    /\ ~AboveAth(StepAth.ath, LastClose(StepHist))
    /\ WithinThreshold(StepAth.ath, LastClose(StepHist), threshold)

StepAlert == <<StepSym, RoundedDistance(StepAth.ath, LastClose(StepHist))>>

\* a bug: a dry run records nothing
MutDryRunAlertsDropped == alerts

\* the alert list after the append of a dry run
DryRunAlerts == Append(alerts, StepAlert)

\* an alert under --dry-run: appended and logged, not sent
AlertDryRun ==
    /\ Qualifies
    /\ dry_run
    /\ alerts' = DryRunAlerts
    /\ i' = i + 1
    /\ UNCHANGED <<market, pc, threshold, dry_run, env, symbols, histories,
                   dispatched, raised, outcome, runs, requests>>

\* an alert: appended, then send_telegram_message(msg), its result unused
AlertSend ==
    /\ Qualifies
    /\ ~dry_run
    /\ alerts' = Append(alerts, StepAlert)
    /\ \E netOk \in BOOLEAN :
          LET r == send_telegram_message(env, netOk)
          IN  /\ dispatched' = Append(dispatched,
                    [msg |-> Message(StepSym, StepHist, StepAth.ath, LastClose(StepHist)),
                     result |-> r.result, posted |-> r.posted])
              /\ IF r.raises
                 THEN /\ raised' = "dispatch"
                      /\ pc' = "done"
                      /\ outcome' = MainOutcome(raised')
                      /\ i' = i
                 ELSE /\ i' = i + 1
                      /\ UNCHANGED <<pc, raised, outcome>>
    /\ UNCHANGED <<market, threshold, dry_run, env, symbols, histories, runs, requests>>

\* the loop is over: scan_ipos returns alerts, main logs them
Return ==
    /\ pc = "loop"
    /\ i = Len(symbols)
    /\ pc' = "done"
    /\ outcome' = "completed"
    /\ UNCHANGED <<market, threshold, dry_run, env, symbols, histories, i, alerts,
                   dispatched, raised, runs, requests>>

\* the external schedule starts the next process
Schedule ==
    /\ pc = "done"
    /\ runs < MaxRuns
    /\ pc' = "idle"
    /\ threshold' = 0
    /\ dry_run' = FALSE
    /\ env' = {}
    /\ symbols' = <<>>
    /\ histories' = <<>>
    /\ i' = 0
    /\ alerts' = <<>>
    /\ dispatched' = <<>>
    /\ raised' = "none"
    /\ outcome' = "idle"
    /\ UNCHANGED <<market, runs, requests>>

\* one run
Run ==
    \/ Main
    \/ GetRecentIpos
    \/ NoRecentIpos
    \/ SymbolSourceFails
    \/ BatchFetch
    \/ DownloadFails
    \/ SkipNoData
    \/ SkipTooRecent
    \/ SkipAboveAth
    \/ NotNear
    \/ AlertDryRun
    \/ AlertSend
    \/ Return

Next == Run \/ Schedule

\* scheduled runs over a two-identifier market
Spec == Init /\ [][Next]_vars

\* one run over a one-identifier market
SpecEval == InitEval /\ [][Run]_vars

(***************************************************************************)
(* The terms of the properties, stated from the specification              *)
(***************************************************************************)
\* some bar of the history has a high
HasData(bars) == \E k \in 1..Len(bars) : bars[k].High # NaN

\* the maximum "high" of a history that has one
AthValue(bars) ==
    CHOOSE m \in {bars[k].High : k \in 1..Len(bars)} :
        m # NaN /\ \A k \in 1..Len(bars) : bars[k].High # NaN => m >= bars[k].High

\* the 0-based position of the earliest bar at the maximum
AthPosition(bars) ==
    (CHOOSE p \in 1..Len(bars) :
        /\ bars[p].High = AthValue(bars)
        /\ \A q \in 1..Len(bars) : bars[q].High = AthValue(bars) => p <= q) - 1

CandlesSinceAth(bars) == Len(bars) - AthPosition(bars) - 1

\* close of the last bar
Current(bars) == bars[Len(bars)].Close

\* d hundredths of a percent is (ath - current) / ath * 100 rounded to two
\* decimals, a tie going to the even hundredth
IsDistance(d, ath, current) ==
    LET err == d * ath - (ath - current) * 10000
    IN  /\ 2 * err <= ath
        /\ -2 * err <= ath
        /\ (2 * err = ath \/ -2 * err = ath) => d % 2 = 0

\* a history that passes the recency guard, is not above its ATH and is
\* within the threshold of it
Near(h, thr) ==
    /\ h.kind = "frame"
    /\ HasData(h.bars)
    /\ Current(h.bars) # NaN
    /\ CandlesSinceAth(h.bars) >= 3
    /\ Current(h.bars) <= AthValue(h.bars)
    /\ Current(h.bars) * 10000 >= AthValue(h.bars) * (10000 - thr)

\* the identifiers of the alert list, in its order, and those dispatched
AlertSyms == [k \in 1..Len(alerts) |-> alerts[k][1]]
AlertedSet == {alerts[k][1] : k \in 1..Len(alerts)}
DispatchedSet == {dispatched[k].msg.symbol : k \in 1..Len(dispatched)}

\* identifiers the loop is done with
Processed == {symbols[k] : k \in 1..i}
Fetched == DOMAIN histories # {}
Completed == pc = "done" /\ outcome = "completed" /\ Fetched

\* a provider outcome with no data: absent, empty, or without a needed field
Missing(raw) ==
    \/ raw.kind = "absent"
    \/ /\ raw.kind = "frame"
       /\ (raw.bars = <<>> \/ "High" \notin raw.cols \/ "Close" \notin raw.cols)

\* every alert carries the rounded distance of its identifier's history
DistancesRight ==
    \A k \in 1..Len(alerts) :
        /\ histories[alerts[k][1]].kind = "frame"
        /\ IsDistance(alerts[k][2], AthValue(histories[alerts[k][1]].bars),
                      Current(histories[alerts[k][1]].bars))

\* the identifiers of syms whose history is near its ATH, in order
NearSyms(syms) == SelectSeq(syms, LAMBDA s : Near(histories[s], threshold))

(***************************************************************************)
(* C1  Recency guard: an identifier whose all-time high lies in the last   *)
(* three bars (total - ath_position - 1 < 3) is never in the alert list    *)
(* and never dispatched, whatever the threshold.                           *)
(***************************************************************************)
C1_RecencyGuard ==
    \A s \in DOMAIN histories :
        (/\ histories[s].kind = "frame"
         /\ HasData(histories[s].bars)
         /\ Len(histories[s].bars) - AthPosition(histories[s].bars) - 1 < 3)
        => (s \notin AlertedSet /\ s \notin DispatchedSet)

\* a finished run over a history of four bars or more whose ATH is two bars
\* old and whose last close is within the threshold
C1_Witness ==
    /\ Completed
    /\ \E s \in Processed :
          /\ histories[s].kind = "frame"
          /\ Len(histories[s].bars) >= 4
          /\ HasData(histories[s].bars)
          /\ CandlesSinceAth(histories[s].bars) = 2
          /\ Current(histories[s].bars) # NaN
          /\ Current(histories[s].bars) <= AthValue(histories[s].bars)
          /\ Current(histories[s].bars) * 10000
                >= AthValue(histories[s].bars) * (10000 - threshold)
          /\ ~dry_run

(***************************************************************************)
(* C2  Proximity predicate: an identifier whose history passes the recency *)
(* guard and whose last close is not above the ATH is alerted if and only  *)
(* if current >= ath * (1 - threshold), and the alert carries              *)
(* round((ath - current) / ath * 100, 2).                                  *)
(***************************************************************************)
C2_Proximity ==
    \A s \in Processed :
        (/\ histories[s].kind = "frame"
         /\ HasData(histories[s].bars)
         /\ CandlesSinceAth(histories[s].bars) >= 3
         /\ Current(histories[s].bars) # NaN
         /\ Current(histories[s].bars) <= AthValue(histories[s].bars))
        => /\ s \in AlertedSet
              <=> Current(histories[s].bars) * 10000
                     >= AthValue(histories[s].bars) * (10000 - threshold)
           /\ \A k \in 1..Len(alerts) :
                 alerts[k][1] = s
                 => IsDistance(alerts[k][2], AthValue(histories[s].bars),
                               Current(histories[s].bars))

\* the scenario: 50 bars, high 150 at position 40, close 148, threshold 0.04
C2_Witness ==
    /\ Completed
    /\ threshold = 400
    /\ histories["A"] = Frame(OHLC, ScenarioBars(40))
    /\ alerts = << <<"A", 133>> >>

(***************************************************************************)
(* C3  Every alert carries a distance that is not negative: an identifier  *)
(* whose last close is strictly above its ATH is never alerted, whatever   *)
(* the threshold.                                                          *)
(***************************************************************************)
C3_NoBreachAlert ==
    /\ \A k \in 1..Len(alerts) : alerts[k][2] >= 0
    /\ \A s \in DOMAIN histories :
          (/\ histories[s].kind = "frame"
           /\ HasData(histories[s].bars)
           /\ Current(histories[s].bars) > AthValue(histories[s].bars))
          => s \notin AlertedSet

\* a finished run over a history that passes the recency guard and closes
\* above its ATH
C3_Witness ==
    /\ Completed
    /\ \E s \in Processed :
          /\ histories[s].kind = "frame"
          /\ HasData(histories[s].bars)
          /\ CandlesSinceAth(histories[s].bars) >= 3
          /\ Current(histories[s].bars) > AthValue(histories[s].bars)

(***************************************************************************)
(* C4  ATH tie-break: for a non-empty history compute_ath_from_hist gives  *)
(* the maximum high, and counts the candles since the earliest position    *)
(* holding it: with the maximum at positions i < j, ath_position = i and   *)
(* candles_since_ath = total - i - 1.                                      *)
(***************************************************************************)
C4_TieBreak ==
    (InLoop /\ StepHist.kind = "frame" /\ HasData(StepHist.bars))
    => /\ StepAth.ok
       /\ StepAth.ath = AthValue(StepHist.bars)
       /\ StepAth.total_candles = Len(StepHist.bars)
       /\ StepAth.ath_index = StepHist.bars[AthPosition(StepHist.bars) + 1].ts
       /\ StepAth.candles_since_ath
             = Len(StepHist.bars) - AthPosition(StepHist.bars) - 1
       /\ \A p, q \in 1..Len(StepHist.bars) :
             (/\ p < q
              /\ StepHist.bars[p].High = StepAth.ath
              /\ StepHist.bars[q].High = StepAth.ath)
             => StepAth.candles_since_ath >= Len(StepHist.bars) - p

\* the loop is at a history whose maximum is held by two bars
C4_Witness ==
    /\ InLoop
    /\ StepHist.kind = "frame"
    /\ HasData(StepHist.bars)
    /\ \E p, q \in 1..Len(StepHist.bars) :
          /\ p < q
          /\ StepHist.bars[p].High = AthValue(StepHist.bars)
          /\ StepHist.bars[q].High = AthValue(StepHist.bars)
          /\ StepAth.candles_since_ath = Len(StepHist.bars) - p

(***************************************************************************)
(* C5  Batch failure isolation: when fetching throws for some identifiers  *)
(* and succeeds for others in the same run, the others are fetched and     *)
(* evaluated normally and alerted if they qualify, the failed ones are     *)
(* skipped, and no exception leaves the scan.                              *)
(***************************************************************************)
C5_FailureIsolation ==
    (Fetched /\ \E a \in DOMAIN histories : market[a].kind = "raises")
    => /\ raised = "none"
       /\ pc = "done" => outcome = "completed"
       /\ \A s \in DOMAIN histories :
             /\ market[s].kind = "raises"
                => (histories[s] = NoneHist /\ s \notin AlertedSet
                    /\ s \notin DispatchedSet)
             /\ (market[s].kind = "frame" /\ ~Missing(market[s]))
                => /\ histories[s].kind = "frame"
                   /\ histories[s].bars = SortIndex(market[s].bars)
                   /\ s \in Processed
                      => (s \in AlertedSet <=> Near(histories[s], threshold))
       /\ DistancesRight

\* a finished run over <<A, B>>: fetching A threw, B was alerted and sent
C5_Witness ==
    /\ Completed
    /\ symbols = <<"A", "B">>
    /\ market["A"].kind = "raises"
    /\ AlertSyms = <<"B">>
    /\ DispatchedSet = {"B"}

(***************************************************************************)
(* C7  Missing data is a skip, not an error: an identifier whose history   *)
(* is absent, empty, or lacks "High" or "Close" yields no alert and no     *)
(* exception, and the other identifiers of the run are alerted exactly as  *)
(* in a run without it.                                                    *)
(***************************************************************************)
C7_MissingDataSkipped ==
    Fetched
    => /\ \A s \in DOMAIN histories :
             Missing(market[s])
             => (histories[s] = NoneHist /\ s \notin AlertedSet
                 /\ s \notin DispatchedSet)
       /\ (pc = "done" /\ \E s \in DOMAIN histories : Missing(market[s]))
          => /\ raised = "none"
             /\ outcome = "completed"
             /\ AlertSyms
                   = NearSyms(SelectSeq(symbols, LAMBDA s : ~Missing(market[s])))
             /\ DistancesRight

\* a finished run over <<A, B>>: A has no "Close" column, B was alerted
C7_Witness ==
    /\ Completed
    /\ symbols = <<"A", "B">>
    /\ market["A"].kind = "frame"
    /\ "Close" \notin market["A"].cols
    /\ AlertSyms = <<"B">>

(***************************************************************************)
(* C8  Dry run: with the flag set the dispatcher is never invoked, and the *)
(* run returns the alert list of the same run without the flag: every      *)
(* identifier near its ATH, in order, with its distance.                   *)
(***************************************************************************)
C8_DryRun ==
    /\ dry_run => dispatched = <<>>
    /\ Completed
       => /\ AlertSyms = NearSyms(symbols)
          /\ DistancesRight
          /\ ~dry_run => Len(dispatched) = Len(alerts)

\* a finished dry run that returns two alerts
C8_Witness ==
    /\ Completed
    /\ dry_run
    /\ Len(alerts) = 2
    /\ dispatched = <<>>

(***************************************************************************)
(* C9  The dispatcher's outcome never affects the scan: without            *)
(* credentials send_telegram_message posts nothing and returns failure,    *)
(* and whether a dispatch is sent, fails or is skipped, every remaining    *)
(* identifier is evaluated and the same alert list is returned, with no    *)
(* exception.                                                              *)
(***************************************************************************)
C9_DispatchOutcomeIgnored ==
    /\ \A k \in 1..Len(dispatched) :
          /\ ({"BOT_TOKEN", "CHAT_ID"} \subseteq env)
             <=> dispatched[k].result # "no_credentials"
          /\ dispatched[k].result = "no_credentials" => ~dispatched[k].posted
          /\ dispatched[k].msg.symbol = alerts[k][1]
    /\ dispatched # <<>>
       => /\ raised = "none"
          /\ pc \in {"loop", "done"}
          /\ pc = "done" => outcome = "completed"
          /\ i >= Len(dispatched)
          /\ AlertSyms = NearSyms(SubSeq(symbols, 1, i))

\* a finished run whose first dispatch failed on delivery and whose second
\* was sent
C9_Witness ==
    /\ Completed
    /\ Len(dispatched) = 2
    /\ dispatched[1].result = "failed"
    /\ dispatched[2].result = "sent"
    /\ Len(alerts) = 2

\* a finished run without CHAT_ID: both dispatches skipped, both alerts returned
C9_WitnessNoCredentials ==
    /\ Completed
    /\ env = {"BOT_TOKEN"}
    /\ Len(dispatched) = 2
    /\ Len(alerts) = 2

(***************************************************************************)
(* C10  Symbol Source failure: the run aborts before any history request   *)
(* and before any dispatch, and main catches the failure; no alert is      *)
(* dispatched in a run whose symbol list was not obtained.                 *)
(***************************************************************************)
SymbolSourceFailed == raised \in {"http_error", "missing_columns"}

\* the history requests of the current run
RunRequests == {k \in 1..Len(requests) : requests[k].run = runs}

C10_SymbolSourceAbort ==
    /\ SymbolSourceFailed
       => /\ pc = "done"
          /\ outcome = "caught"
          /\ RunRequests = {}
          /\ ~Fetched
          /\ alerts = <<>>
          /\ dispatched = <<>>
    /\ dispatched # <<>> => (symbols # <<>> /\ RunRequests # {} /\ Fetched)
    /\ (pc # "idle" /\ RunRequests # {}) => symbols # <<>>

\* the second run fails at the Symbol Source after a first run that fetched
C10_Witness ==
    /\ SymbolSourceFailed
    /\ runs = 2
    /\ \E k \in 1..Len(requests) : requests[k].run = 1 /\ requests[k].obtained

====
